---- MODULE Spec2Model ----
(***************************************************************************)
(* The three scripts of the HealthSync repository as state machines:       *)
(*   chart_script.py    the architecture diagram      (script = "arch")    *)
(*   chart_script_1.py  the user-journey flowchart    (script = "journey") *)
(*   script.py          the CSV reports and summary   (script = "report")  *)
(* Each script runs top to bottom; one action is one statement or one      *)
(* iteration of a loop.  The files a run writes stay on disk for the next  *)
(* run of the same script.                                                 *)
(*                                                                         *)
(* Numbers.  A Python float is modelled as a fixed-point number: the       *)
(* integer n stands for n / Unit, and every operation rounds its result to *)
(* the nearest representable value, as IEEE arithmetic does at a far finer *)
(* resolution.                                                             *)
(***************************************************************************)
EXTENDS Integers, Sequences, FiniteSets, TLC

VARIABLES
    script,           \* which script this process runs
    run,              \* number of the current run of the script (1, 2, ...)
    pc,               \* the statement the run is at
    i,                \* index of the loop the run is in
    components_data,  \* chart_script.py: the node table, in insertion order
    connections,      \* chart_script.py: the edge list
    fig,              \* the figure: the sequence of traces and shapes added
    legend_types,     \* chart_script_1.py: list(set(df['type']))
    dfs,              \* script.py: the DataFrames built so far
    stdout,           \* script.py: the lines printed
    error,            \* the unhandled exception that ended the run, or "none"
    files,            \* the working directory: file name -> content
    first_files       \* the working directory as the first run left it

vars == <<script, run, pc, i, components_data, connections, fig, legend_types,
          dfs, stdout, error, files, first_files>>

----------------------------------------------------------------------------
(* Bounds of the model. *)

\* the longest edge list of a generated input
MaxEdges == 2
\* how many times a script is run in the same directory
MaxRuns == 2
\* the hash seeds explored are 0 .. MaxHashSeed
MaxHashSeed == 2

----------------------------------------------------------------------------
(* Fixed-point arithmetic. *)

\* 1.0
Unit == 100 * 100

\* the decimal literal n/d
Dec(n, d) == (n * Unit) \div d

Abs(n) == IF n < 0 THEN -n ELSE n

\* a / b rounded to the nearest integer (b > 0)
RoundDiv(a, b) == (2 * a + b) \div (2 * b)

\* the product of two fixed-point numbers
Mul(a, b) == RoundDiv(a * b, Unit)

\* the quotient of two fixed-point numbers
Div(a, b) == RoundDiv(a * Unit, b)

RECURSIVE SqrtSearch(_, _, _)
\* the largest r in lo .. hi with r * r <= n
SqrtSearch(n, lo, hi) ==
    IF lo = hi THEN lo
    ELSE LET mid == (lo + hi + 1) \div 2
         IN  IF mid * mid <= n THEN SqrtSearch(n, mid, hi)
             ELSE SqrtSearch(n, lo, mid - 1)

\* floor of the square root of n, for 0 <= n < 2^30
ISqrt(n) == SqrtSearch(n, 0, 32767)

\* np.sqrt of the fixed-point square dx**2 + dy**2 (n is in units of
\* 1/Unit^2, the result in units of 1/Unit), rounded to nearest
Sqrt(n) == LET r == ISqrt(n) IN IF n - r * r > r THEN r + 1 ELSE r

----------------------------------------------------------------------------
(* Files. *)

NoFile == <<"absent">>

ArchImage == "healthsync_architecture.png"
JourneyImage == "healthsync_user_journey.png"
FeaturesCsv == "healthsync_features_analysis.csv"
RoiCsv == "healthsync_roi_metrics.csv"
TechCsv == "healthsync_technical_specifications.csv"

FileNames == {ArchImage, JourneyImage, FeaturesCsv, RoiCsv, TechCsv}

EmptyDir == [f \in FileNames |-> NoFile]

----------------------------------------------------------------------------
(* chart_script.py: data. *)

Node(name, x, y, category) ==
    [name |-> name, pos |-> <<x, y>>, category |-> category]

\* the node table of the script
ComponentsData == <<
    Node("User Interface", Dec(1, 10), Dec(6, 10), "frontend"),
    Node("Insurance OCR",  Dec(3, 10), Dec(8, 10), "ai"),
    Node("Preference AI",  Dec(3, 10), Dec(4, 10), "ai"),
    Node("Coverage Data",  Dec(5, 10), Dec(8, 10), "data"),
    Node("Health Profile", Dec(5, 10), Dec(4, 10), "data"),
    Node("Scheduling AI",  Dec(7, 10), Dec(6, 10), "ai"),
    Node("Provider DB",    Dec(7, 10), Dec(2, 10), "data"),
    Node("Calendar Gen",   Dec(9, 10), Dec(6, 10), "output"),
    Node("Communication",  Dec(9, 10), Dec(2, 10), "integration") >>

\* the edge list of the script
Connections == <<
    <<"User Interface", "Insurance OCR">>,
    <<"User Interface", "Preference AI">>,
    <<"Insurance OCR", "Coverage Data">>,
    <<"Preference AI", "Health Profile">>,
    <<"Coverage Data", "Scheduling AI">>,
    <<"Health Profile", "Scheduling AI">>,
    <<"Scheduling AI", "Provider DB">>,
    <<"Provider DB", "Calendar Gen">>,
    <<"Calendar Gen", "User Interface">>,
    <<"Calendar Gen", "Communication">> >>

\* the color lookup, in insertion order
color_map == <<
    [category |-> "frontend",    color |-> "#1565C0"],
    [category |-> "ai",          color |-> "#2E7D32"],
    [category |-> "data",        color |-> "#0277BD"],
    [category |-> "output",      color |-> "#388E3C"],
    [category |-> "integration", color |-> "#0288D1"],
    [category |-> "security",    color |-> "#D32F2F"] >>

\* category.title().replace('_', ' ') on the keys of color_map
LegendName(category) ==
    CASE category = "frontend"    -> "Frontend"
      [] category = "ai"          -> "Ai"
      [] category = "data"        -> "Data"
      [] category = "output"      -> "Output"
      [] category = "integration" -> "Integration"
      [] category = "security"    -> "Security"

(* Generated inputs: node tables and edge lists other than the script's own. *)

\* the names a generated table gives its nodes, in insertion order
NodePool == <<"A", "B">>

\* a name no table holds
Stranger == "Z"

\* the position and category a generated node may have: the unit edge of the
\* documented example, nodes 0.02 and 0.03 apart, two nodes at the same
\* place, a 3-4-5 diagonal, and a category that is no key of color_map
NodeKinds == {
    <<0, 0, "frontend">>,
    <<Dec(1, 1), 0, "ai">>,
    <<Dec(2, 100), 0, "ai">>,
    <<Dec(3, 100), 0, "data">>,
    <<0, 0, "mystery">>,
    <<Dec(3, 100), Dec(4, 100), "frontend">> }

GeneratedTables ==
    UNION { { [k \in 1..n |-> Node(NodePool[k], kinds[k][1], kinds[k][2], kinds[k][3])]
              : kinds \in [1..n -> NodeKinds] }
            : n \in 0..Len(NodePool) }

EdgeNames == { NodePool[k] : k \in 1..Len(NodePool) } \cup {Stranger}

GeneratedEdgeLists ==
    UNION { [1..n -> EdgeNames \X EdgeNames] : n \in 0..MaxEdges }

----------------------------------------------------------------------------
(* Traces.  Every element of a figure is a record of the same shape; x, y  *)
(* and text are the lists handed to the plotting call.                     *)

Trace(kind, x, y, text, name, color, angle) ==
    [kind |-> kind, x |-> x, y |-> y, text |-> text, name |-> name,
     color |-> color, angle |-> angle]

NoAngle == <<>>

----------------------------------------------------------------------------
(* chart_script.py: the statements. *)

\* name in components_data
HasKey(table, name) == \E k \in 1..Len(table) : table[k].name = name

\* components_data[name]
Item(table, name) == table[CHOOSE k \in 1..Len(table) : table[k].name = name]

\* go.Scatter(x=[x0, x1], y=[y0, y1], mode='lines', ...)
ArrowLine(x0, y0, x1, y1) ==
    Trace("line", <<x0, x1>>, <<y0, y1>>, <<>>, "", "#455A64", NoAngle)

\* length = np.sqrt(dx**2 + dy**2)
Length(dx, dy) == Sqrt(dx * dx + dy * dy)

\* the arrowhead with the offset 0.3 in place of 0.03
ArrowPosFar(x0, y0, x1, y1) ==
    LET dx == x1 - x0
        dy == y1 - y0
        length == Length(dx, dy)
    IN  << x1 - Mul(Dec(3, 10), Div(dx, length)),
           y1 - Mul(Dec(3, 10), Div(dy, length)) >>

\* (arrow_x, arrow_y): 0.03 before the end node, along the edge
ArrowPos(x0, y0, x1, y1) ==
    LET dx == x1 - x0
        dy == y1 - y0
        length == Length(dx, dy)
        dx_norm == Div(dx, length)
        dy_norm == Div(dy, length)
    IN  << x1 - Mul(Dec(3, 100), dx_norm), y1 - Mul(Dec(3, 100), dy_norm) >>

\* the arrowhead trace of an edge, if any.  The angle np.degrees(np.arctan2(dy, dx))
\* is kept as the pair (dy, dx) it is computed from.
Arrowhead(x0, y0, x1, y1) ==
    LET dx == x1 - x0
        dy == y1 - y0
        length == Length(dx, dy)
        arrow == ArrowPos(x0, y0, x1, y1)
    IN  IF length > 0
        THEN << Trace("arrow", <<arrow[1]>>, <<arrow[2]>>, <<>>, "", "#455A64",
                      <<dy, dx>>) >>
        ELSE << >>

\* the edge loop skipping a connection whose endpoint is not in the table
AddConnectionSkip ==
    /\ script = "arch"
    /\ pc = "connections"
    /\ i <= Len(connections)
    /\ LET start_node == connections[i][1]
           end_node == connections[i][2]
       IN  IF ~HasKey(components_data, start_node) \/ ~HasKey(components_data, end_node)
           THEN fig' = fig
           ELSE LET p0 == Item(components_data, start_node).pos
                    p1 == Item(components_data, end_node).pos
                IN  fig' = Append(fig, ArrowLine(p0[1], p0[2], p1[1], p1[2]))
                              \o Arrowhead(p0[1], p0[2], p1[1], p1[2])
    /\ i' = i + 1
    /\ UNCHANGED <<script, run, pc, components_data, connections, legend_types, dfs,
                   stdout, error, files, first_files>>

\* one iteration of "for connection in connections"
AddConnection ==
    /\ script = "arch"
    /\ pc = "connections"
    /\ i <= Len(connections)
    /\ LET start_node == connections[i][1]
           end_node == connections[i][2]
       IN  IF ~HasKey(components_data, start_node) \/ ~HasKey(components_data, end_node)
           THEN /\ pc' = "failed"
                /\ error' = "KeyError"
                /\ UNCHANGED <<i, fig>>
           ELSE LET p0 == Item(components_data, start_node).pos
                    p1 == Item(components_data, end_node).pos
                IN  /\ fig' = Append(fig, ArrowLine(p0[1], p0[2], p1[1], p1[2]))
                                 \o Arrowhead(p0[1], p0[2], p1[1], p1[2])
                    /\ i' = i + 1
                    /\ UNCHANGED <<pc, error>>
    /\ UNCHANGED <<script, run, components_data, connections, legend_types, dfs,
                   stdout, files, first_files>>

\* the edge loop is exhausted
ConnectionsDone ==
    /\ script = "arch"
    /\ pc = "connections"
    /\ i > Len(connections)
    /\ pc' = "nodes"
    /\ i' = 1
    /\ UNCHANGED <<script, run, components_data, connections, fig, legend_types,
                   dfs, stdout, error, files, first_files>>

RECURSIVE Filter(_, _)
Filter(table, category) ==
    IF table = << >> THEN << >>
    ELSE IF Head(table).category = category
         THEN <<Head(table)>> \o Filter(Tail(table), category)
         ELSE Filter(Tail(table), category)

\* the filter keeping only the first node of the category
CategoryNodesFirstOnly(table, category) ==
    LET all == Filter(table, category)
    IN  IF all = << >> THEN << >> ELSE <<Head(all)>>

\* {k: v for k, v in components_data.items() if v["category"] == category}
CategoryNodes(table, category) == Filter(table, category)

\* the marker group of one category
NodeGroup(category, color, category_nodes) ==
    Trace("nodes",
          [k \in 1..Len(category_nodes) |-> category_nodes[k].pos[1]],
          [k \in 1..Len(category_nodes) |-> category_nodes[k].pos[2]],
          [k \in 1..Len(category_nodes) |-> category_nodes[k].name],
          LegendName(category), color, NoAngle)

\* the category loop without the "if category_nodes" test
AddCategoryAlways ==
    /\ script = "arch"
    /\ pc = "nodes"
    /\ i <= Len(color_map)
    /\ LET category == color_map[i].category
           color == color_map[i].color
           category_nodes == CategoryNodes(components_data, category)
       IN  fig' = Append(fig, NodeGroup(category, color, category_nodes))
    /\ i' = i + 1
    /\ UNCHANGED <<script, run, pc, components_data, connections, legend_types,
                   dfs, stdout, error, files, first_files>>

\* one iteration of "for category, color in color_map.items()"
AddCategory ==
    /\ script = "arch"
    /\ pc = "nodes"
    /\ i <= Len(color_map)
    /\ LET category == color_map[i].category
           color == color_map[i].color
           category_nodes == CategoryNodes(components_data, category)
       IN  fig' = IF category_nodes # << >>
                  THEN Append(fig, NodeGroup(category, color, category_nodes))
                  ELSE fig
    /\ i' = i + 1
    /\ UNCHANGED <<script, run, pc, components_data, connections, legend_types,
                   dfs, stdout, error, files, first_files>>

\* the end of the category loop going straight to write_image
NodesDoneSkipOverlay ==
    /\ script = "arch"
    /\ pc = "nodes"
    /\ i > Len(color_map)
    /\ pc' = "write_image"
    /\ UNCHANGED <<script, run, i, components_data, connections, fig, legend_types,
                   dfs, stdout, error, files, first_files>>

\* the category loop is exhausted
NodesDone ==
    /\ script = "arch"
    /\ pc = "nodes"
    /\ i > Len(color_map)
    /\ pc' = "privacy_shape"
    /\ UNCHANGED <<script, run, i, components_data, connections, fig, legend_types,
                   dfs, stdout, error, files, first_files>>

\* fig.add_shape(type="rect", x0=0.05, y0=0.05, x1=0.95, y1=0.95, ...)
PrivacyRect ==
    Trace("rect", <<Dec(5, 100), Dec(95, 100)>>, <<Dec(5, 100), Dec(95, 100)>>,
          <<>>, "", "rgba(211, 47, 47, 0.05)", NoAngle)

\* go.Scatter(x=[0.5], y=[0.1], mode='markers+text', ..., name='Security')
PrivacyLabel ==
    Trace("label", <<Dec(5, 10)>>, <<Dec(1, 10)>>, <<"Privacy Layer<br>PIPEDA">>,
          "Security", "#D32F2F", NoAngle)

AddPrivacyShape ==
    /\ script = "arch"
    /\ pc = "privacy_shape"
    /\ fig' = Append(fig, PrivacyRect)
    /\ pc' = "privacy_label"
    /\ UNCHANGED <<script, run, i, components_data, connections, legend_types,
                   dfs, stdout, error, files, first_files>>

AddPrivacyLabel ==
    /\ script = "arch"
    /\ pc = "privacy_label"
    /\ fig' = Append(fig, PrivacyLabel)
    /\ pc' = "write_image"
    /\ UNCHANGED <<script, run, i, components_data, connections, legend_types,
                   dfs, stdout, error, files, first_files>>

\* fig.update_layout(...); fig.write_image("healthsync_architecture.png"):
\* the file is created or overwritten with the rendering of the figure
WriteArchImage ==
    /\ script = "arch"
    /\ pc = "write_image"
    /\ files' = [files EXCEPT ![ArchImage] = fig]
    /\ pc' = "done"
    /\ UNCHANGED <<script, run, i, components_data, connections, fig, legend_types,
                   dfs, stdout, error, first_files>>

----------------------------------------------------------------------------
(* Running a script, and running it again. *)

FirstPc(s) ==
    CASE s = "arch"    -> "connections"
      [] s = "journey" -> "lines"
      [] s = "report"  -> "features_df"

\* range() loops count from 0, the others walk a list from its first element
FirstIndex(s) == IF s = "journey" THEN 0 ELSE 1

NoFrames == << >>

\* a fresh process: nothing of the previous run is left but the files
Rerun ==
    /\ pc = "done"
    /\ run < MaxRuns
    /\ run' = run + 1
    /\ pc' = FirstPc(script)
    /\ i' = FirstIndex(script)
    /\ fig' = << >>
    /\ legend_types' = << >>
    /\ dfs' = NoFrames
    /\ stdout' = << >>
    /\ first_files' = IF run = 1 THEN files ELSE first_files
    /\ UNCHANGED <<script, components_data, connections, error, files>>

InitCommon ==
    /\ run = 1
    /\ pc = FirstPc(script)
    /\ i = FirstIndex(script)
    /\ fig = << >>
    /\ legend_types = << >>
    /\ dfs = NoFrames
    /\ stdout = << >>
    /\ error = "none"
    /\ files = EmptyDir
    /\ first_files = EmptyDir

InitArch ==
    /\ script = "arch"
    /\ \/ /\ components_data = ComponentsData
          /\ connections = Connections
       \/ /\ components_data \in GeneratedTables
          /\ connections \in GeneratedEdgeLists
    /\ InitCommon

NextArch ==
    \/ AddConnection
    \/ ConnectionsDone
    \/ AddCategory
    \/ NodesDone
    \/ AddPrivacyShape
    \/ AddPrivacyLabel
    \/ WriteArchImage
    \/ Rerun

SpecArch == InitArch /\ [][NextArch]_vars

----------------------------------------------------------------------------
(* chart_script_1.py: data. *)

Step(id, title, description, type, time) ==
    [id |-> id, title |-> title, description |-> description, type |-> type,
     time |-> time]

\* data["steps"]
Steps == <<
    Step(1, "Welcome Landing", "User arrives at HealthSync AI", "start", "30 seconds"),
    Step(2, "Upload Insurance", "Upload policy document", "action", "2 minutes"),
    Step(3, "AI Processing", "OCR extracts coverage data", "ai", "30 seconds"),
    Step(4, "Review Coverage", "Verify extracted information", "review", "1 minute"),
    Step(5, "Health Questionnaire", "Answer preference questions", "action", "5 minutes"),
    Step(6, "AI Profile Generation", "Create health profile", "ai", "15 seconds"),
    Step(7, "View Annual Calendar", "See proposed appointments", "review", "3 minutes"),
    Step(8, "Appointment Details", "Review provider information", "review", "2 minutes"),
    Step(9, "Make Changes?", "Accept or modify appointments", "decision", "1 minute"),
    Step(10, "Send to Providers", "Submit appointment requests", "action", "30 seconds"),
    Step(11, "Track Status", "Monitor appointment confirmations", "monitoring", "Ongoing"),
    Step(12, "Confirmation", "Receive provider responses", "end", "24-48 hours") >>

title_map(title) ==
    CASE title = "Welcome Landing"       -> "Welcome"
      [] title = "Upload Insurance"      -> "Upload Docs"
      [] title = "AI Processing"         -> "AI Process"
      [] title = "Review Coverage"       -> "Review Plan"
      [] title = "Health Questionnaire"  -> "Health Survey"
      [] title = "AI Profile Generation" -> "AI Profile"
      [] title = "View Annual Calendar"  -> "View Calendar"
      [] title = "Appointment Details"   -> "Appt Details"
      [] title = "Make Changes?"         -> "Accept/Modify?"
      [] title = "Send to Providers"     -> "Send Requests"
      [] title = "Track Status"          -> "Track Status"
      [] title = "Confirmation"          -> "Confirmation"

type_colors(type) ==
    CASE type = "start"      -> "#1FB8CD"
      [] type = "action"     -> "#5D878F"
      [] type = "ai"         -> "#13343B"
      [] type = "review"     -> "#ECEBD5"
      [] type = "decision"   -> "#1FB8CD"
      [] type = "monitoring" -> "#5D878F"
      [] type = "end"        -> "#1FB8CD"

\* type.title() on the step types
TypeTitle(type) ==
    CASE type = "start"      -> "Start"
      [] type = "action"     -> "Action"
      [] type = "ai"         -> "Ai"
      [] type = "review"     -> "Review"
      [] type = "decision"   -> "Decision"
      [] type = "monitoring" -> "Monitoring"
      [] type = "end"        -> "End"

\* the DataFrame: the steps with display_title, x_pos = 2 and
\* y_pos = range(len(df), 0, -1).  Row r of the code (counted from 0) is df[r + 1].
df ==
    [r \in 1..Len(Steps) |->
        [id |-> Steps[r].id, title |-> Steps[r].title, type |-> Steps[r].type,
         time |-> Steps[r].time, display_title |-> title_map(Steps[r].title),
         x_pos |-> 2 * Unit, y_pos |-> (Len(Steps) - (r - 1)) * Unit]]

\* df.iloc[r]
iloc(r) == df[r + 1]

JTrace(kind, x, y, text, name, color, symbol) ==
    [kind |-> kind, x |-> x, y |-> y, text |-> text, name |-> name,
     color |-> color, symbol |-> symbol]

----------------------------------------------------------------------------
(* chart_script_1.py: the statements. *)

\* the straight segment from row r to row r + 1
ForwardLine(r) ==
    JTrace("line", <<iloc(r).x_pos, iloc(r + 1).x_pos>>,
           <<iloc(r).y_pos, iloc(r + 1).y_pos>>, <<>>, "", "#5D878F", "")

\* the dotted path from row r out to the right and back to row r - 1
LoopBack(r) ==
    JTrace("dotted",
           <<iloc(r).x_pos, iloc(r).x_pos + Dec(8, 10), iloc(r).x_pos + Dec(8, 10),
             iloc(r - 1).x_pos>>,
           <<iloc(r).y_pos, iloc(r).y_pos, iloc(r - 1).y_pos, iloc(r - 1).y_pos>>,
           <<>>, "", "#5D878F", "")

\* the branch taken at the step's id, 9, instead of its row, 8
StepLinesById(r) ==
    IF r = 9 THEN <<ForwardLine(r), LoopBack(r)>> ELSE <<ForwardLine(r)>>

\* the traces of one iteration of "for i in range(len(df) - 1)"
StepLines(r) ==
    IF r = 8 THEN <<ForwardLine(r), LoopBack(r)>> ELSE <<ForwardLine(r)>>

AddStepLines ==
    /\ script = "journey"
    /\ pc = "lines"
    /\ i < Len(df) - 1
    /\ fig' = fig \o StepLines(i)
    /\ i' = i + 1
    /\ UNCHANGED <<script, run, pc, components_data, connections, legend_types,
                   dfs, stdout, error, files, first_files>>

LinesDone ==
    /\ script = "journey"
    /\ pc = "lines"
    /\ i >= Len(df) - 1
    /\ pc' = "markers"
    /\ i' = 0
    /\ UNCHANGED <<script, run, components_data, connections, fig, legend_types,
                   dfs, stdout, error, files, first_files>>

MarkerSymbol(type) == IF type = "ai" \/ type = "decision" THEN "diamond" ELSE "circle"

\* one iteration of the first "for i, row in df.iterrows()"
AddStepMarker ==
    /\ script = "journey"
    /\ pc = "markers"
    /\ i < Len(df)
    /\ LET row == iloc(i)
       IN  fig' = Append(fig, JTrace("marker", <<row.x_pos>>, <<row.y_pos>>,
                                     <<row.display_title>>, TypeTitle(row.type),
                                     type_colors(row.type), MarkerSymbol(row.type)))
    /\ i' = i + 1
    /\ UNCHANGED <<script, run, pc, components_data, connections, legend_types,
                   dfs, stdout, error, files, first_files>>

MarkersDone ==
    /\ script = "journey"
    /\ pc = "markers"
    /\ i >= Len(df)
    /\ pc' = "times"
    /\ i' = 0
    /\ UNCHANGED <<script, run, components_data, connections, fig, legend_types,
                   dfs, stdout, error, files, first_files>>

\* one iteration of the second "for i, row in df.iterrows()"
AddTimeAnnotation ==
    /\ script = "journey"
    /\ pc = "times"
    /\ i < Len(df)
    /\ LET row == iloc(i)
       IN  fig' = Append(fig, JTrace("text", <<row.x_pos + Dec(12, 10)>>, <<row.y_pos>>,
                                     <<row.time>>, "", "gray", ""))
    /\ i' = i + 1
    /\ UNCHANGED <<script, run, pc, components_data, connections, legend_types,
                   dfs, stdout, error, files, first_files>>

RECURSIVE Distinct(_, _)
\* the values of the list that are not in seen, each once, as first met
Distinct(list, seen) ==
    IF list = << >> THEN << >>
    ELSE IF Head(list) \in seen THEN Distinct(Tail(list), seen)
         ELSE <<Head(list)>> \o Distinct(Tail(list), seen \cup {Head(list)})

Rotate(list, k) ==
    [n \in 1..Len(list) |-> list[((n - 1 + k) % Len(list)) + 1]]

\* list(set(column)) in a process whose string hash seed is seed.  A set of
\* strings is iterated in the order of the hashes, which vary with the seed
\* (drawn at random for each process); of the orders that can come out the
\* model takes the rotations of the first-met order.
ListOfSet(column, seed) == Rotate(Distinct(column, {}), seed)

HashSeeds == 0..MaxHashSeed

\* the time-annotation loop is exhausted; legend_types = list(set(df['type']))
MakeLegendTypes ==
    /\ script = "journey"
    /\ pc = "times"
    /\ i >= Len(df)
    /\ \E seed \in HashSeeds :
         legend_types' = ListOfSet([r \in 1..Len(df) |-> df[r].type], seed)
    /\ pc' = "legend"
    /\ i' = 0
    /\ UNCHANGED <<script, run, components_data, connections, fig, dfs, stdout,
                   error, files, first_files>>

\* one iteration of "for i, step_type in enumerate(legend_types)"
AddLegendEntry ==
    /\ script = "journey"
    /\ pc = "legend"
    /\ i < Len(legend_types)
    /\ LET step_type == legend_types[i + 1]
           legend_y_start == 13 * Unit
       IN  fig' = Append(fig, JTrace("legend", <<Dec(2, 10)>>,
                                     <<legend_y_start - i * Dec(4, 10)>>,
                                     <<TypeTitle(step_type)>>, "",
                                     type_colors(step_type), MarkerSymbol(step_type)))
    /\ i' = i + 1
    /\ UNCHANGED <<script, run, pc, components_data, connections, legend_types,
                   dfs, stdout, error, files, first_files>>

LegendDone ==
    /\ script = "journey"
    /\ pc = "legend"
    /\ i >= Len(legend_types)
    /\ pc' = "accept"
    /\ UNCHANGED <<script, run, i, components_data, connections, fig, legend_types,
                   dfs, stdout, error, files, first_files>>

AddAcceptLabel ==
    /\ script = "journey"
    /\ pc = "accept"
    /\ fig' = Append(fig, JTrace("text", <<Dec(24, 10)>>, <<4 * Unit>>, <<"Accept">>,
                                 "", "#5D878F", ""))
    /\ pc' = "modify"
    /\ UNCHANGED <<script, run, i, components_data, connections, legend_types,
                   dfs, stdout, error, files, first_files>>

AddModifyLabel ==
    /\ script = "journey"
    /\ pc = "modify"
    /\ fig' = Append(fig, JTrace("text", <<Dec(32, 10)>>, <<Dec(45, 10)>>, <<"Modify">>,
                                 "", "#5D878F", ""))
    /\ pc' = "write_image"
    /\ UNCHANGED <<script, run, i, components_data, connections, legend_types,
                   dfs, stdout, error, files, first_files>>

\* fig.update_layout(...); fig.write_image("healthsync_user_journey.png")
WriteJourneyImage ==
    /\ script = "journey"
    /\ pc = "write_image"
    /\ files' = [files EXCEPT ![JourneyImage] = fig]
    /\ pc' = "done"
    /\ UNCHANGED <<script, run, i, components_data, connections, fig, legend_types,
                   dfs, stdout, error, first_files>>

InitJourney ==
    /\ script = "journey"
    /\ components_data = << >>
    /\ connections = << >>
    /\ InitCommon

NextJourney ==
    \/ AddStepLines
    \/ LinesDone
    \/ AddStepMarker
    \/ MarkersDone
    \/ AddTimeAnnotation
    \/ MakeLegendTypes
    \/ AddLegendEntry
    \/ LegendDone
    \/ AddAcceptLabel
    \/ AddModifyLabel
    \/ WriteJourneyImage
    \/ Rerun

SpecJourney == InitJourney /\ [][NextJourney]_vars

----------------------------------------------------------------------------
(* script.py: data.                                                        *)
(* A text is the sequence of its pieces: the characters that matter to the *)
(* CSV format (comma, double quote, line feed, carriage return) and the    *)
(* word AI, which the script searches for, are pieces of their own, and    *)
(* what lies between two of them is one piece.  A number is an int, or a   *)
(* float held in tenths (all the floats of the tables have one decimal).   *)

PyStrCommaLost(pieces) ==
    [type |-> "str", val |-> SelectSeq(pieces, LAMBDA p : p # ",")]

\* a str literal
PyStr(pieces) == [type |-> "str", val |-> pieces]

\* an int literal
PyInt(n) == [type |-> "int", val |-> n]

\* a float literal, in tenths
PyFloat(tenths) == [type |-> "float", val |-> tenths]

\* one key of a data dict and its list
Column(name, values) == [name |-> name, values |-> values]

\* features_data, script.py lines 8-49
features_data == <<
    Column(<<"Feature Category">>, <<
        PyStr(<<"Insurance Processing">>), PyStr(<<"Insurance Processing">>),
        PyStr(<<"Insurance Processing">>), PyStr(<<"Health Preferences">>),
        PyStr(<<"Health Preferences">>), PyStr(<<"Health Preferences">>),
        PyStr(<<"AI", " Scheduling">>), PyStr(<<"AI", " Scheduling">>),
        PyStr(<<"AI", " Scheduling">>), PyStr(<<"User Experience">>),
        PyStr(<<"User Experience">>), PyStr(<<"User Experience">>),
        PyStr(<<"Privacy & Security">>), PyStr(<<"Privacy & Security">>),
        PyStr(<<"Privacy & Security">>), PyStr(<<"Provider Integration">>),
        PyStr(<<"Provider Integration">>) >>),
    Column(<<"Specific Feature">>, <<
        PyStr(<<"OCR Document Upload">>), PyStr(<<"Coverage Extraction">>),
        PyStr(<<"Insurance Validation">>), PyStr(<<"Adaptive Questionnaire">>),
        PyStr(<<"Health Profile Generation">>), PyStr(<<"Preference Learning">>),
        PyStr(<<"Annual Calendar Creation">>), PyStr(<<"Provider Matching">>),
        PyStr(<<"Appointment Optimization">>), PyStr(<<"Responsive Web Design">>),
        PyStr(<<"Real-time Updates">>), PyStr(<<"Multi-device Support">>),
        PyStr(<<"PIPEDA Compliance">>), PyStr(<<"Data Encryption">>),
        PyStr(<<"User Consent Management">>), PyStr(<<"Provider Communication">>),
        PyStr(<<"Appointment Confirmation">>) >>),
    Column(<<"Implementation Status">>, <<
        PyStr(<<"Complete">>), PyStr(<<"Complete">>), PyStr(<<"Complete">>),
        PyStr(<<"Complete">>), PyStr(<<"Complete">>), PyStr(<<"Complete">>),
        PyStr(<<"Complete">>), PyStr(<<"Complete">>), PyStr(<<"Complete">>),
        PyStr(<<"Complete">>), PyStr(<<"Complete">>), PyStr(<<"Complete">>),
        PyStr(<<"Complete">>), PyStr(<<"Complete">>), PyStr(<<"Complete">>),
        PyStr(<<"Complete">>), PyStr(<<"Complete">>) >>),
    Column(<<"User Benefit">>, <<
        PyStr(<<"Automated data entry">>), PyStr(<<"Instant coverage analysis">>),
        PyStr(<<"Error reduction">>), PyStr(<<"Personalized care">>),
        PyStr(<<"Tailored recommendations">>), PyStr(<<"Improved accuracy">>),
        PyStr(<<"Proactive scheduling">>), PyStr(<<"Optimal provider matching">>),
        PyStr(<<"Reduced conflicts">>), PyStr(<<"Easy access">>),
        PyStr(<<"Real-time information">>), PyStr(<<"Convenience">>),
        PyStr(<<"Data protection">>), PyStr(<<"Secure handling">>),
        PyStr(<<"Transparent control">>), PyStr(<<"Streamlined booking">>),
        PyStr(<<"Confirmed appointments">>) >>),
    Column(<<"Time Saved (minutes)">>, <<
        PyInt(15), PyInt(10), PyInt(5), PyInt(20), PyInt(10), PyInt(5), PyInt(60), PyInt(30), PyInt(15),
        PyInt(5), PyInt(10), PyInt(5), PyInt(30), PyInt(20), PyInt(10), PyInt(25), PyInt(15) >>) >>

\* roi_data, script.py lines 54-76
roi_data == <<
    Column(<<"Metric">>, <<
        PyStr(<<"Time Saved per User (hours/year)">>),
        PyStr(<<"Missed Appointments Reduction (%)">>),
        PyStr(<<"Administrative Cost Savings ($/user/year)">>),
        PyStr(<<"Patient Satisfaction Improvement (%)">>),
        PyStr(<<"Provider Efficiency Gain (%)">>),
        PyStr(<<"Healthcare Utilization Optimization (%)">>),
        PyStr(<<"User Adoption Rate (%)">>), PyStr(<<"System Accuracy Rate (%)">>),
        PyStr(<<"Privacy Compliance Score (%)">>),
        PyStr(<<"Provider Integration Success (%)">>) >>),
    Column(<<"Baseline (Without ", "AI", ")">>, <<
        PyInt(0), PyInt(0), PyInt(0), PyInt(70), PyInt(60), PyInt(65), PyInt(0), PyInt(75), PyInt(80),
        PyInt(40) >>),
    Column(<<"With HealthSync ", "AI">>, <<
        PyFloat(85), PyInt(25), PyInt(150), PyInt(90), PyInt(85), PyInt(85), PyInt(75), PyInt(95),
        PyInt(98), PyInt(80) >>),
    Column(<<"Improvement">>, <<
        PyFloat(85), PyInt(25), PyInt(150), PyInt(20), PyInt(25), PyInt(20), PyInt(75), PyInt(20),
        PyInt(18), PyInt(40) >>) >>

\* tech_specs, script.py lines 81-118
tech_specs == <<
    Column(<<"Component">>, <<
        PyStr(<<"Frontend Framework">>), PyStr(<<"Insurance OCR Engine">>),
        PyStr(<<"AI", " Questionnaire System">>), PyStr(<<"Scheduling Algorithm">>),
        PyStr(<<"Database Architecture">>), PyStr(<<"Security Implementation">>),
        PyStr(<<"Provider API Integration">>), PyStr(<<"Calendar Interface">>),
        PyStr(<<"Mobile Responsiveness">>), PyStr(<<"Privacy Compliance">>) >>),
    Column(<<"Technology">>, <<
        PyStr(<<"React.js with responsive design">>),
        PyStr(<<"Advanced OCR with ML validation">>),
        PyStr(<<"Adaptive ", "AI", " with natural language processing">>),
        PyStr(<<"Multi-objective optimization engine">>),
        PyStr(<<"Encrypted cloud storage with local caching">>),
        PyStr(<<"End-to-end encryption", ",", " PIPEDA compliant">>),
        PyStr(<<"RESTful APIs with healthcare standards">>),
        PyStr(<<"Interactive annual view with drag-drop">>),
        PyStr(<<"Progressive Web App (PWA) ready">>),
        PyStr(<<"Built-in privacy controls and audit logs">>) >>),
    Column(<<"Key Capability">>, <<
        PyStr(<<"Cross-platform accessibility">>),
        PyStr(<<"95% accuracy in coverage extraction">>),
        PyStr(<<"Learns from user responses">>),
        PyStr(<<"Optimizes for cost", ",", " location", ",", " and preference">>),
        PyStr(<<"Secure", ",", " scalable data management">>),
        PyStr(<<"Meets Canadian healthcare regulations">>),
        PyStr(<<"Real-time provider communication">>),
        PyStr(<<"Visual appointment management">>),
        PyStr(<<"Works on all devices seamlessly">>), PyStr(<<"Transparent data handling">>) >>) >>

----------------------------------------------------------------------------
(* script.py: pandas. *)

\* the dtype pandas infers for a list of values
Dtype(values) ==
    IF \A k \in 1..Len(values) : values[k].type = "str" THEN "object"
    ELSE IF \A k \in 1..Len(values) : values[k].type = "int" THEN "int64"
    ELSE IF \A k \in 1..Len(values) : values[k].type \in {"int", "float"} THEN "float64"
    ELSE "object"

\* a value stored in a column of the dtype: an int in a float64 column is a float
AsType(cell, dtype) ==
    IF dtype = "float64" /\ cell.type = "int" THEN PyFloat(10 * cell.val) ELSE cell

\* pd.DataFrame(data): the columns in the order of the dict
DataFrame(data) ==
    [columns |-> [c \in 1..Len(data) |-> data[c].name],
     dtypes  |-> [c \in 1..Len(data) |-> Dtype(data[c].values)],
     values  |-> [c \in 1..Len(data) |->
                    [r \in 1..Len(data[c].values) |->
                        AsType(data[c].values[r], Dtype(data[c].values))]]]

\* len(frame)
NRows(frame) == IF Len(frame.values) = 0 THEN 0 ELSE Len(frame.values[1])

\* the number of the column named name
ColumnIndex(frame, name) ==
    CHOOSE c \in 1..Len(frame.columns) : frame.columns[c] = name

\* frame[name]
Series(frame, name) == frame.values[ColumnIndex(frame, name)]

Digit(d) ==
    CASE d = 0 -> "0" [] d = 1 -> "1" [] d = 2 -> "2" [] d = 3 -> "3" [] d = 4 -> "4"
      [] d = 5 -> "5" [] d = 6 -> "6" [] d = 7 -> "7" [] d = 8 -> "8" [] d = 9 -> "9"

RECURSIVE Digits(_)
\* the decimal digits of n >= 0
Digits(n) == IF n < 10 THEN <<Digit(n)>> ELSE Append(Digits(n \div 10), Digit(n % 10))

\* the text to_csv writes for a value: str(int), repr(float)
FormatValue(cell) ==
    CASE cell.type = "str"   -> cell.val
      [] cell.type = "int"   -> Digits(cell.val)
      [] cell.type = "float" -> Digits(cell.val \div 10) \o <<".">> \o Digits(cell.val % 10)

\* format(value, '.1f') of a float in tenths
FormatOneDecimal(cell) == Digits(cell.val \div 10) \o <<".">> \o Digits(cell.val % 10)

RECURSIVE DoubleQuotes(_)
\* every double quote of the text doubled
DoubleQuotes(text) ==
    IF text = << >> THEN << >>
    ELSE IF Head(text) = "\""
         THEN <<"\"", "\"">> \o DoubleQuotes(Tail(text))
         ELSE <<Head(text)>> \o DoubleQuotes(Tail(text))

CsvFieldUnquoted(text) == text

\* a field as csv.writer writes it under QUOTE_MINIMAL, the default of to_csv:
\* in double quotes when it holds the delimiter, a quote or a line break
CsvField(text) ==
    IF \E k \in 1..Len(text) : text[k] \in {",", "\"", "\n", "\r"}
    THEN <<"\"">> \o DoubleQuotes(text) \o <<"\"">>
    ELSE text

RECURSIVE JoinFields(_)
JoinFields(fields) ==
    IF fields = << >> THEN << >>
    ELSE IF Len(fields) = 1 THEN CsvField(fields[1])
    ELSE CsvField(fields[1]) \o <<",">> \o JoinFields(Tail(fields))

\* one line of the file: the fields, comma-separated, and the line feed
CsvLine(fields) == JoinFields(fields) \o <<"\n">>

\* the header line of frame.to_csv(path, index=False)
CsvHeader(frame) == CsvLine(frame.columns)

\* the line of row r
CsvRow(frame, r) ==
    CsvLine([c \in 1..Len(frame.columns) |-> FormatValue(frame.values[c][r])])

RECURSIVE SumFrom(_, _)
SumFrom(series, k) ==
    IF k > Len(series) THEN 0 ELSE series[k].val + SumFrom(series, k + 1)

SeriesSumSkippingFirst(series) == SumFrom(series, 2)

\* series.sum() of an int64 column
SeriesSum(series) == SumFrom(series, 1)

\* series.nunique()
NUnique(series) == Cardinality({ series[k] : k \in 1..Len(series) })

\* series.str.contains('AI'), counted
CountContainsAI(series) ==
    Cardinality({ k \in 1..Len(series) :
                    \E m \in 1..Len(series[k].val) : series[k].val[m] = "AI" })

----------------------------------------------------------------------------
(* script.py: the statements. *)

Frame(name) == dfs[CHOOSE k \in 1..Len(dfs) : dfs[k].name = name].frame

\* name = pd.DataFrame(data)
MakeFrame(at, name, data, next) ==
    /\ script = "report"
    /\ pc = at
    /\ dfs' = Append(dfs, [name |-> name, frame |-> DataFrame(data)])
    /\ pc' = next
    /\ i' = 0
    /\ UNCHANGED <<script, run, components_data, connections, fig, legend_types,
                   stdout, error, files, first_files>>

MakeFeaturesDf == MakeFrame("features_df", "features_df", features_data, "roi_df")
MakeRoiDf == MakeFrame("roi_df", "roi_df", roi_data, "tech_df")
MakeTechDf == MakeFrame("tech_df", "tech_df", tech_specs, "features_csv")

\* frame.to_csv(path, index=False), a line at a time: the file is opened for
\* writing, which empties it, and gets the header; then a line for each row
ToCsv(at, name, path, next) ==
    /\ script = "report"
    /\ pc = at
    /\ LET frame == Frame(name)
       IN  IF i = 0
           THEN /\ files' = [files EXCEPT ![path] = CsvHeader(frame)]
                /\ i' = 1
                /\ pc' = pc
           ELSE IF i <= NRows(frame)
           THEN /\ files' = [files EXCEPT ![path] = files[path] \o CsvRow(frame, i)]
                /\ i' = i + 1
                /\ pc' = pc
           ELSE /\ files' = files
                /\ i' = 0
                /\ pc' = next
    /\ UNCHANGED <<script, run, components_data, connections, fig, legend_types,
                   dfs, stdout, error, first_files>>

FeaturesToCsv == ToCsv("features_csv", "features_df", FeaturesCsv, "roi_csv")
RoiToCsv == ToCsv("roi_csv", "roi_df", RoiCsv, "tech_csv")
TechToCsv == ToCsv("tech_csv", "tech_df", TechCsv, "print_title")

\* a printed line: the text of the f-string and the values put in its holes
\* (the pictographs that open the titles are left out and the bullet that
\* opens a line is written *)
Line(text, args) == [text |-> text, args |-> args]

\* print(...) of the lines; no loop is running, and the index is left at the
\* first element for the loop that may follow

WriteStdout(at, lines, next) ==
    /\ script = "report"
    /\ pc = at
    /\ stdout' = stdout \o lines
    /\ pc' = next
    /\ i' = 1
    /\ UNCHANGED <<script, run, components_data, connections, fig, legend_types,
                   dfs, error, files, first_files>>

PrintTitle ==
    WriteStdout("print_title",
          << Line("HealthSync AI MVP - Comprehensive Analysis", <<>>),
             Line("==================================================", <<>>),
             Line("\nFEATURE SUMMARY:", <<>>) >>,
          "print_features")

TimeSaved == <<"Time Saved (minutes)">>

PrintFeatureSummary ==
    WriteStdout("print_features",
          << Line("Total Features Implemented: {}", <<NRows(Frame("features_df"))>>),
             Line("Feature Categories: {}",
                  <<NUnique(Series(Frame("features_df"), <<"Feature Category">>))>>),
             Line("Total Time Saved per User: {} minutes per scheduling cycle",
                  <<SeriesSum(Series(Frame("features_df"), TimeSaved))>>) >>,
          "print_roi")

PrintRoiTitle ==
    WriteStdout("print_roi", << Line("\nROI ANALYSIS:", <<>>) >>, "roi_rows")

\* the ROI loop testing the baseline of the row instead of its improvement
PrintRoiRowOnBaseline ==
    /\ script = "report"
    /\ pc = "roi_rows"
    /\ i <= NRows(Frame("roi_df"))
    /\ LET improvement == Series(Frame("roi_df"), <<"Improvement">>)[i]
           baseline == Series(Frame("roi_df"), <<"Baseline (Without ", "AI", ")">>)[i]
           metric == Series(Frame("roi_df"), <<"Metric">>)[i]
       IN  stdout' = IF baseline.val > 0
                     THEN Append(stdout, Line("* {}: +{:.1f}",
                                              <<metric.val, FormatOneDecimal(improvement)>>))
                     ELSE stdout
    /\ i' = i + 1
    /\ UNCHANGED <<script, run, pc, components_data, connections, fig, legend_types,
                   dfs, error, files, first_files>>

\* one iteration of "for _, row in roi_df.iterrows()"
PrintRoiRow ==
    /\ script = "report"
    /\ pc = "roi_rows"
    /\ i <= NRows(Frame("roi_df"))
    /\ LET improvement == Series(Frame("roi_df"), <<"Improvement">>)[i]
           metric == Series(Frame("roi_df"), <<"Metric">>)[i]
       IN  stdout' = IF improvement.val > 0
                     THEN Append(stdout, Line("* {}: +{:.1f}",
                                              <<metric.val, FormatOneDecimal(improvement)>>))
                     ELSE stdout
    /\ i' = i + 1
    /\ UNCHANGED <<script, run, pc, components_data, connections, fig, legend_types,
                   dfs, error, files, first_files>>

RoiRowsDone ==
    /\ script = "report"
    /\ pc = "roi_rows"
    /\ i > NRows(Frame("roi_df"))
    /\ pc' = "print_technical"
    /\ UNCHANGED <<script, run, i, components_data, connections, fig, legend_types,
                   dfs, stdout, error, files, first_files>>

PrintTechnical ==
    WriteStdout("print_technical",
          << Line("\nTECHNICAL CAPABILITIES:", <<>>),
             Line("Frontend: Modern React.js application", <<>>),
             Line("AI Integration: {} AI-powered components",
                  <<CountContainsAI(Series(Frame("tech_df"), <<"Component">>))>>),
             Line("Security: PIPEDA compliant with end-to-end encryption", <<>>),
             Line("Integration: Healthcare provider APIs and insurance systems", <<>>) >>,
          "print_rest")

\* the remaining prints, none of which holds a computed value
PrintRest ==
    WriteStdout("print_rest",
          << Line("\nKEY INNOVATIONS:", <<>>),
             Line("1. Automated insurance document processing with 95% accuracy", <<>>),
             Line("2. AI-powered adaptive health preference questionnaire", <<>>),
             Line("3. Annual healthcare scheduling with proactive appointment optimization", <<>>),
             Line("4. Real-time provider communication and appointment confirmation", <<>>),
             Line("5. Privacy-first design meeting Canadian healthcare regulations", <<>>),
             Line("\nUSER EXPERIENCE HIGHLIGHTS:", <<>>),
             Line("* Complete workflow from insurance upload to appointment confirmation", <<>>),
             Line("* Intuitive annual calendar view with visual appointment management", <<>>),
             Line("* Mobile-responsive design for access anywhere, anytime", <<>>),
             Line("* Real-time status tracking and provider communication", <<>>),
             Line("* Transparent privacy controls and data management", <<>>),
             Line("\nFiles Created:", <<>>),
             Line("* healthsync_features_analysis.csv - Detailed feature breakdown", <<>>),
             Line("* healthsync_roi_metrics.csv - Expected return on investment", <<>>),
             Line("* healthsync_technical_specifications.csv - Technical implementation details", <<>>) >>,
          "done")

InitReport ==
    /\ script = "report"
    /\ components_data = << >>
    /\ connections = << >>
    /\ InitCommon

NextReport ==
    \/ MakeFeaturesDf
    \/ MakeRoiDf
    \/ MakeTechDf
    \/ FeaturesToCsv
    \/ RoiToCsv
    \/ TechToCsv
    \/ PrintTitle
    \/ PrintFeatureSummary
    \/ PrintRoiTitle
    \/ PrintRoiRow
    \/ RoiRowsDone
    \/ PrintTechnical
    \/ PrintRest
    \/ Rerun

SpecReport == InitReport /\ [][NextReport]_vars

----------------------------------------------------------------------------
(* Any of the three scripts. *)

Init == InitArch \/ InitJourney \/ InitReport

Next == NextArch \/ NextJourney \/ NextReport

Spec == Init /\ [][Next]_vars

----------------------------------------------------------------------------
(* Reading the state of chart_script.py. *)

ArchKeys == { color_map[k].category : k \in 1..Len(color_map) }

\* the connections whose endpoints are not both in the node table
Dangling ==
    { k \in 1..Len(connections) :
        ~HasKey(components_data, connections[k][1])
        \/ ~HasKey(components_data, connections[k][2]) }

FirstDangling == CHOOSE k \in Dangling : \A m \in Dangling : k <= m

\* how many connections the edge loop has been through without an error
EdgesDrawn ==
    IF pc \in {"connections", "failed"} THEN i - 1 ELSE Len(connections)

StartPos(k) == Item(components_data, connections[k][1]).pos
EndPos(k) == Item(components_data, connections[k][2]).pos

RECURSIVE TracesBefore(_)
\* the number of traces that the connections before the k-th one should have
\* left: a segment each, and an arrowhead for each whose endpoints differ
TracesBefore(k) ==
    IF k <= 1 THEN 0
    ELSE TracesBefore(k - 1) + (IF StartPos(k - 1) = EndPos(k - 1) THEN 1 ELSE 2)

KindCount(kind) == Cardinality({ n \in 1..Len(fig) : fig[n].kind = kind })

GroupIndices == { n \in 1..Len(fig) : fig[n].kind = "nodes" }

\* the groups whose labels hold the name
GroupsOf(name) ==
    { n \in GroupIndices : \E m \in 1..Len(fig[n].text) : fig[n].text[m] = name }

RECURSIVE SumSizes(_)
SumSizes(S) ==
    IF S = {} THEN 0
    ELSE LET n == CHOOSE n \in S : TRUE
         IN  Len(fig[n].text) + SumSizes(S \ {n})

AfterNodes == pc \in {"privacy_shape", "privacy_label", "write_image", "done"}

Dot(u, v) == u[1] * v[1] + u[2] * v[2]
Cross(u, v) == u[1] * v[2] - u[2] * v[1]
Minus(u, v) == <<u[1] - v[1], u[2] - v[2]>>

\* the resolution to which a computed coordinate is compared, in 1/Unit
Tol == 2

ArrowOffset == Dec(3, 100)

\* p is b - 0.03 * (b - a) / |b - a|, to the resolution of the arithmetic:
\* at distance 0.03 from b, on the line through a and b, on a's side of b
AtOffsetFromEnd(p, a, b) ==
    LET v == Minus(b, p)
        d == Minus(b, a)
    IN  /\ Dot(v, v) >= (ArrowOffset - Tol) * (ArrowOffset - Tol)
        /\ Dot(v, v) <= (ArrowOffset + Tol) * (ArrowOffset + Tol)
        /\ Abs(Cross(v, d)) <= Tol * (ISqrt(Dot(d, d)) + 1)
        /\ Dot(v, d) > 0

\* p lies on the segment from a to b and is neither a nor b: p = b - t (b - a)
\* with 0 < t < 1
StrictlyBetween(p, a, b) ==
    LET v == Minus(b, p)
        d == Minus(b, a)
    IN  /\ Abs(Cross(v, d)) <= Tol * (ISqrt(Dot(d, d)) + 1)
        /\ Dot(v, d) > 0
        /\ Dot(v, d) < Dot(d, d)

\* the first traces of the figure are those of the connections gone through,
\* in order: the segment of each, followed by its arrowhead iff its endpoints
\* differ; no other trace is a segment or an arrowhead
EdgeTracesInPlace ==
    /\ Len(fig) >= TracesBefore(EdgesDrawn + 1)
    /\ \A n \in 1..Len(fig) :
         fig[n].kind \in {"line", "arrow"} <=> n <= TracesBefore(EdgesDrawn + 1)
    /\ \A k \in 1..EdgesDrawn :
         LET a == StartPos(k)
             b == EndPos(k)
             at == TracesBefore(k) + 1
         IN  /\ fig[at].kind = "line"
             /\ fig[at].x = <<a[1], b[1]>>
             /\ fig[at].y = <<a[2], b[2]>>
             /\ a # b => fig[at + 1].kind = "arrow"
             /\ a = b => TracesBefore(k + 1) = at
    /\ KindCount("arrow") =
         Cardinality({ k \in 1..EdgesDrawn : StartPos(k) # EndPos(k) })

ArrowOf(k) ==
    LET t == fig[TracesBefore(k) + 2] IN <<t.x[1], t.y[1]>>

----------------------------------------------------------------------------
(* The claims about chart_script.py. *)

\* C1 as stated: every connection gone through whose endpoint positions
\* differ has exactly one arrowhead, at b - 0.03 (b - a)/|b - a|, strictly
\* between a and b; a connection whose endpoints coincide has none; for
\* a = (0,0), b = (1,0) the arrowhead is at (0.97, 0).
C1_AsStated ==
    script = "arch" =>
        /\ EdgeTracesInPlace
        /\ \A k \in 1..EdgesDrawn :
             LET a == StartPos(k)
                 b == EndPos(k)
             IN  a # b =>
                    /\ AtOffsetFromEnd(ArrowOf(k), a, b)
                    /\ StrictlyBetween(ArrowOf(k), a, b)
                    /\ (a = <<0, 0>> /\ b = <<Unit, 0>>)
                          => ArrowOf(k) = <<Dec(97, 100), 0>>

\* C1, amended: every connection gone through whose endpoint positions differ
\* has exactly one arrowhead, at b - 0.03 (b - a)/|b - a|; the arrowhead is
\* strictly between a and b when |b - a| > 0.03, and is not when
\* |b - a| <= 0.03 (it is then at a or beyond it); a connection whose
\* endpoints coincide has none; for a = (0,0), b = (1,0) it is at (0.97, 0).
C1_Arrowhead ==
    script = "arch" =>
        /\ EdgeTracesInPlace
        /\ \A k \in 1..EdgesDrawn :
             LET a == StartPos(k)
                 b == EndPos(k)
                 d == Minus(b, a)
             IN  a # b =>
                    /\ AtOffsetFromEnd(ArrowOf(k), a, b)
                    /\ StrictlyBetween(ArrowOf(k), a, b)
                          <=> Dot(d, d) > ArrowOffset * ArrowOffset
                    /\ (a = <<0, 0>> /\ b = <<Unit, 0>>)
                          => ArrowOf(k) = <<Dec(97, 100), 0>>

\* C1, witness: the run has gone through the connection of the example and a
\* connection whose endpoints coincide.
C1_Witness ==
    /\ script = "arch"
    /\ \E k \in 1..EdgesDrawn : StartPos(k) = <<0, 0>> /\ EndPos(k) = <<Unit, 0>>
    /\ \E k \in 1..EdgesDrawn : StartPos(k) = EndPos(k)


\* C3 as stated: once the category loop is over, every node of the table is
\* in exactly one marker group and the sizes of the groups add up to the
\* number of nodes.
C3_AsStated ==
    (script = "arch" /\ AfterNodes) =>
        /\ \A k \in 1..Len(components_data) :
             Cardinality(GroupsOf(components_data[k].name)) = 1
        /\ SumSizes(GroupIndices) = Len(components_data)

\* the nodes whose category is a key of color_map
KnownNodes ==
    { k \in 1..Len(components_data) : components_data[k].category \in ArchKeys }

\* C3, amended: once the category loop is over, every node whose category is
\* a key of the color lookup is in exactly one marker group, every other node
\* is in none, and the sizes of the groups add up to the number of nodes
\* whose category is a key of the lookup.
C3_Partition ==
    (script = "arch" /\ AfterNodes) =>
        /\ \A k \in 1..Len(components_data) :
             Cardinality(GroupsOf(components_data[k].name)) =
                IF k \in KnownNodes THEN 1 ELSE 0
        /\ SumSizes(GroupIndices) = Cardinality(KnownNodes)

\* C3, witness: the category loop is over for a table with two nodes of one
\* category.
C3_Witness ==
    /\ script = "arch"
    /\ AfterNodes
    /\ \E n \in GroupIndices : Len(fig[n].text) >= 2

\* the place of a trace in the drawing order
Rank(kind) ==
    CASE kind \in {"line", "arrow"} -> 1
      [] kind = "nodes" -> 2
      [] kind = "rect" -> 3
      [] kind = "label" -> 4

\* C5: at every moment the figure holds the segments and arrowheads first,
\* then the marker groups, then the overlay rectangle, then the overlay
\* marker; the overlay is added once the category loop is over, exactly once,
\* the same for every input; a run whose connections all name nodes of the
\* table gets there, with a segment for every connection.
C5_DrawOrder ==
    script = "arch" =>
        /\ \A m, n \in 1..Len(fig) : m < n => Rank(fig[m].kind) <= Rank(fig[n].kind)
        /\ KindCount("rect") = (IF pc \in {"privacy_label", "write_image", "done"} THEN 1 ELSE 0)
        /\ KindCount("label") = (IF pc \in {"write_image", "done"} THEN 1 ELSE 0)
        /\ pc \in {"write_image", "done"} =>
              /\ fig[Len(fig) - 1] = PrivacyRect
              /\ fig[Len(fig)] = PrivacyLabel
              /\ KindCount("line") = Len(connections)
        /\ pc = "failed" => Dangling # {}

\* C5, witness: a finished run that drew segments, an arrowhead, two marker
\* groups and the overlay.
C5_Witness ==
    /\ script = "arch"
    /\ pc = "done"
    /\ KindCount("arrow") >= 1
    /\ KindCount("nodes") >= 2
    /\ KindCount("label") = 1

\* C8: a node whose category is no key of the color lookup is in no marker
\* group and causes no error: the run fails only on a connection that names
\* no node, and otherwise ends with the image written; every node whose
\* category is a key is in a group; a key with no node has no group.
C8_UnknownCategory ==
    script = "arch" =>
        /\ \A k \in 1..Len(components_data) :
             components_data[k].category \notin ArchKeys
                => GroupsOf(components_data[k].name) = {}
        /\ AfterNodes =>
              /\ \A k \in KnownNodes : GroupsOf(components_data[k].name) # {}
              /\ \A c \in 1..Len(color_map) :
                   (\A k \in 1..Len(components_data) :
                        components_data[k].category # color_map[c].category)
                     => \A n \in GroupIndices : fig[n].color # color_map[c].color
        /\ pc = "failed" => (error = "KeyError" /\ Dangling # {})
        /\ pc # "failed" => error = "none"
        /\ pc = "done" => files[ArchImage] = fig

\* C8, witness: a finished run, image written, of a table with a node of an
\* unknown category and a node of a known one.
C8_Witness ==
    /\ script = "arch"
    /\ pc = "done"
    /\ files[ArchImage] = fig
    /\ \E k \in 1..Len(components_data) : components_data[k].category \notin ArchKeys
    /\ KnownNodes # {}

\* C9: when some connection names a node that is not in the table, the run
\* never gets past the first such connection: it fails there with the
\* unhandled KeyError, the figure then holds the traces of the connections
\* before it and nothing else, and no image file is ever written.
C9_DanglingEdge ==
    (script = "arch" /\ Dangling # {}) =>
        /\ pc \in {"connections", "failed"}
        /\ i <= FirstDangling
        /\ pc = "failed" => (i = FirstDangling /\ error = "KeyError")
        /\ Len(fig) = TracesBefore(i)
        /\ EdgeTracesInPlace
        /\ files[ArchImage] = NoFile

\* C9, witness: the run failed on its second connection, the first drawn.
C9_Witness ==
    /\ script = "arch"
    /\ pc = "failed"
    /\ i = 2
    /\ Len(fig) >= 1

----------------------------------------------------------------------------
(* Reading the state of chart_script_1.py. *)

\* the position of row r (counted from 0)
StepPos(r) == <<iloc(r).x_pos, iloc(r).y_pos>>

Rows == 0..(Len(df) - 1)

\* the paths drawn: straight segments and dotted paths
Paths == { n \in 1..Len(fig) : fig[n].kind \in {"line", "dotted"} }

PathStart(n) == <<fig[n].x[1], fig[n].y[1]>>
PathEnd(n) == <<fig[n].x[Len(fig[n].x)], fig[n].y[Len(fig[n].y)]>>

\* how many iterations of the connecting-lines loop are over
LinesGone == IF pc = "lines" THEN i ELSE Len(df) - 1

DecisionRows == { r \in Rows : iloc(r).type = "decision" }

----------------------------------------------------------------------------
(* The claims about chart_script_1.py. *)

\* C10: every pair of consecutive steps the loop has been through is joined
\* by exactly one forward segment, 11 for the 12 steps once the loop is over;
\* exactly one loop-back path is drawn, from the one step of type 'decision'
\* (step 9, 'Make Changes?') to the step right before it (step 8,
\* 'Appointment Details'); every other step but the last has exactly one
\* outgoing path and the last has none.
C10_Paths ==
    script = "journey" =>
        /\ \A r \in 0..(LinesGone - 1) :
             Cardinality({ n \in Paths : /\ fig[n].kind = "line"
                                         /\ PathStart(n) = StepPos(r)
                                         /\ PathEnd(n) = StepPos(r + 1) }) = 1
        /\ Cardinality({ n \in Paths : fig[n].kind = "line" }) = LinesGone
        /\ pc # "lines" => Cardinality({ n \in Paths : fig[n].kind = "line" }) = 11
        /\ Len(df) = 12
        /\ Cardinality(DecisionRows) = 1
        /\ \A r \in DecisionRows :
             /\ iloc(r).id = 9 /\ iloc(r).title = "Make Changes?"
             /\ iloc(r - 1).id = 8 /\ iloc(r - 1).title = "Appointment Details"
             /\ LET back == { n \in Paths : fig[n].kind = "dotted" }
                IN  IF LinesGone > r
                    THEN /\ Cardinality(back) = 1
                         /\ \A n \in back : /\ PathStart(n) = StepPos(r)
                                            /\ PathEnd(n) = StepPos(r - 1)
                    ELSE back = {}
        /\ \A r \in Rows :
             Cardinality({ n \in Paths : PathStart(n) = StepPos(r) }) =
                IF r >= LinesGone THEN 0
                ELSE IF r \in DecisionRows THEN 2 ELSE 1

\* C10, witness: a finished run whose figure holds a loop-back path.
C10_Witness ==
    /\ script = "journey"
    /\ pc = "done"
    /\ \E n \in Paths : fig[n].kind = "dotted"

----------------------------------------------------------------------------
(* The claim about running a script again. *)

\* C4: when a second or later run of a script is over, the output files and
\* their contents are those the first run left.
C4_Idempotent ==
    (run >= 2 /\ pc = "done") => files = first_files

----------------------------------------------------------------------------
(* Reading a CSV file back: the reader of RFC 4180, which csv.reader and   *)
(* pd.read_csv follow.  A field in double quotes may hold commas and line  *)
(* breaks, and a doubled quote in it is one quote.                         *)

RECURSIVE ReadRecord(_, _, _, _, _)
\* one record of the stream, read from piece k on: mode is where the reader
\* is ("start" of a field, in a "plain" field, in a "quoted" field, or
\* "closing": after a quote met in a quoted field); field and record are what
\* has been read of the current field and of the record.  The result is the
\* record and the place of the piece after it.
ReadRecord(stream, k, mode, field, record) ==
    IF k > Len(stream)
    THEN [record |-> Append(record, field), next |-> k]
    ELSE LET p == stream[k]
         IN  CASE mode = "quoted" /\ p = "\"" ->
                    ReadRecord(stream, k + 1, "closing", field, record)
               [] mode = "quoted" /\ p # "\"" ->
                    ReadRecord(stream, k + 1, "quoted", Append(field, p), record)
               [] mode = "start" /\ p = "\"" ->
                    ReadRecord(stream, k + 1, "quoted", field, record)
               [] mode = "closing" /\ p = "\"" ->
                    ReadRecord(stream, k + 1, "quoted", Append(field, p), record)
               [] mode # "quoted" /\ p = "," ->
                    ReadRecord(stream, k + 1, "start", << >>, Append(record, field))
               [] mode # "quoted" /\ p = "\n" ->
                    [record |-> Append(record, field), next |-> k + 1]
               [] OTHER ->
                    ReadRecord(stream, k + 1, "plain", Append(field, p), record)

RECURSIVE ReadFrom(_, _, _)
\* the records of the stream from piece k on, after those already read
ReadFrom(stream, k, records) ==
    IF k > Len(stream) THEN records
    ELSE LET r == ReadRecord(stream, k, "start", << >>, << >>)
         IN  ReadFrom(stream, r.next, Append(records, r.record))

\* the records of a file
ReadRecords(stream) == ReadFrom(stream, 1, << >>)

IsDigit(p) == p \in {"0", "1", "2", "3", "4", "5", "6", "7", "8", "9"}

DigitValue(p) == CHOOSE d \in 0..9 : Digit(d) = p

RECURSIVE Number(_, _)
\* the number whose digits the text is, after those that made acc
Number(text, acc) ==
    IF text = << >> THEN acc ELSE Number(Tail(text), 10 * acc + DigitValue(Head(text)))

IsIntText(text) == text # << >> /\ \A k \in 1..Len(text) : IsDigit(text[k])

\* digits, a point, one digit
IsFloatText(text) ==
    /\ Len(text) >= 3
    /\ text[Len(text) - 1] = "."
    /\ \A k \in 1..Len(text) : k # Len(text) - 1 => IsDigit(text[k])

\* the dtype a reader infers for the texts of a column
ReadDtype(texts) ==
    IF \A k \in 1..Len(texts) : IsIntText(texts[k]) THEN "int64"
    ELSE IF \A k \in 1..Len(texts) : IsIntText(texts[k]) \/ IsFloatText(texts[k])
    THEN "float64"
    ELSE "object"

\* the value a text stands for in a column of the dtype
ReadValue(text, dtype) ==
    CASE dtype = "int64" -> PyInt(Number(text, 0))
      [] dtype = "float64" ->
            IF IsIntText(text) THEN PyFloat(10 * Number(text, 0))
            ELSE PyFloat(Number(SubSeq(text, 1, Len(text) - 2) \o <<text[Len(text)]>>, 0))
      [] dtype = "object" -> PyStr(text)

\* the content parses to the frame: a header equal to the column names in
\* order, then one record for each row, in row order, the fields of each in
\* column order, each field standing for the value of the cell
ReadsBackAs(content, frame) ==
    LET records == ReadRecords(content)
        ncols == Len(frame.columns)
        nrows == NRows(frame)
    IN  /\ Len(records) = nrows + 1
        /\ records[1] = frame.columns
        /\ \A r \in 1..nrows : Len(records[r + 1]) = ncols
        /\ \A c \in 1..ncols :
             LET dtype == ReadDtype([r \in 1..nrows |-> records[r + 1][c]])
             IN  /\ dtype = frame.dtypes[c]
                 /\ \A r \in 1..nrows :
                      LET read == ReadValue(records[r + 1][c], dtype)
                      IN  /\ read.type = frame.values[c][r].type
                          /\ read.val = frame.values[c][r].val

----------------------------------------------------------------------------
(* Reading the state of script.py. *)

FrameNames == { dfs[k].name : k \in 1..Len(dfs) }

\* the file each frame is exported to, and where the run is while it does it
Exports == {
    [name |-> "features_df", path |-> FeaturesCsv, at |-> "features_csv"],
    [name |-> "roi_df", path |-> RoiCsv, at |-> "roi_csv"],
    [name |-> "tech_df", path |-> TechCsv, at |-> "tech_csv"] }

\* the file is on disk and no to_csv is in the middle of writing it
Exported(e) == files[e.path] # NoFile /\ ~(pc = e.at /\ i > 0)

\* the header and data fields of a frame: <<column, row>>, row 0 the header
FieldsOf(frame) == (1..Len(frame.columns)) \X (0..NRows(frame))

\* the text of a field; a number has the text of its digits
FieldText(frame, f) ==
    IF f[2] = 0 THEN frame.columns[f[1]] ELSE FormatValue(frame.values[f[1]][f[2]])

HasComma(text) == \E k \in 1..Len(text) : text[k] = ","

CommaFields(frame) == { f \in FieldsOf(frame) : HasComma(FieldText(frame, f)) }

\* the lines printed that start with "Total Time Saved per User"
TotalLines ==
    { n \in 1..Len(stdout) :
        stdout[n].text = "Total Time Saved per User: {} minutes per scheduling cycle" }

TimeSavedColumn == <<15, 10, 5, 20, 10, 5, 60, 30, 15, 5, 10, 5, 30, 20, 10, 25, 15>>

\* the features table is built and holds the column of the claim
HoldsTimeSaved ==
    /\ "features_df" \in FrameNames
    /\ LET series == Series(Frame("features_df"), TimeSaved)
       IN  /\ Len(series) = Len(TimeSavedColumn)
           /\ \A k \in 1..Len(series) :
                series[k].type = "int" /\ series[k].val = TimeSavedColumn[k]

----------------------------------------------------------------------------
(* The claims about script.py. *)

\* C2 as stated: the summary over the features table, whose 'Time Saved
\* (minutes)' column is [15,10,5,20,10,5,60,30,15,5,10,5,30,20,10,25,15],
\* reports the sum of the column as 280.
C2_AsStated ==
    script = "report" =>
        /\ "features_df" \in FrameNames => HoldsTimeSaved
        /\ \A n \in TotalLines : stdout[n].args = <<280>>

\* C2, amended: the summary over the features table, whose 'Time Saved
\* (minutes)' column is [15,10,5,20,10,5,60,30,15,5,10,5,30,20,10,25,15],
\* reports the sum of the column as 290, in one line, printed once the
\* feature summary is.
C2_Sum ==
    script = "report" =>
        /\ "features_df" \in FrameNames => HoldsTimeSaved
        /\ \A n \in TotalLines : stdout[n].args = <<290>>
        /\ Cardinality(TotalLines) =
              (IF pc \in {"features_df", "roi_df", "tech_df", "features_csv", "roi_csv",
                          "tech_csv", "print_title", "print_features"}
               THEN 0 ELSE 1)

\* C2, witness: the feature summary is printed.
C2_Witness ==
    /\ script = "report"
    /\ HoldsTimeSaved
    /\ TotalLines # {}

\* C6 as stated: no field, header or data, of a table built holds a comma.
C6_AsStated ==
    script = "report" =>
        \A name \in FrameNames : CommaFields(Frame(name)) = {}

\* C6, amended: no header of the three tables and no data field of the
\* features and ROI tables holds a comma; of the technical specifications
\* exactly three data fields do: the Technology of row 6 ('End-to-end
\* encryption, PIPEDA compliant') and the Key Capability of rows 4 and 5
\* ('Optimizes for cost, location, and preference', 'Secure, scalable data
\* management').
C6_Commas ==
    script = "report" =>
        \A name \in FrameNames :
            CommaFields(Frame(name)) =
                IF name = "tech_df" THEN {<<2, 6>>, <<3, 4>>, <<3, 5>>} ELSE {}

\* C6, witness: the three tables are built.
C6_Witness ==
    /\ script = "report"
    /\ FrameNames = {"features_df", "roi_df", "tech_df"}

\* C7: each exported file, read back, has a header equal to the column names
\* of its table, in order, and rows equal to the rows of the table in row
\* order, field order and values.
C7_RoundTrip ==
    script = "report" =>
        \A e \in Exports :
            (Exported(e) /\ e.name \in FrameNames)
                => ReadsBackAs(files[e.path], Frame(e.name))

\* C7, witness: the three files are written, the one of the technical
\* specifications with quoted fields.
C7_Witness ==
    /\ script = "report"
    /\ pc = "done"
    /\ \A e \in Exports : Exported(e)
    /\ \E k \in 1..Len(files[TechCsv]) : files[TechCsv][k] = "\""


\* the lines the ROI loop printed, in the order printed
RoiLines == SelectSeq(stdout, LAMBDA line : line.text = "* {}: +{:.1f}")

\* how many rows the ROI loop has been through
RoiRowsGone ==
    IF pc \in {"features_df", "roi_df", "tech_df", "features_csv", "roi_csv", "tech_csv",
               "print_title", "print_features", "print_roi"}
    THEN 0
    ELSE IF pc = "roi_rows" THEN i - 1 ELSE NRows(Frame("roi_df"))

\* a number of the ROI table in tenths, whatever the dtype of its column
Tenths(cell) == IF cell.type = "int" THEN 10 * cell.val ELSE cell.val

\* C11: in the ROI table, once built, every row has Improvement = 'With
\* HealthSync AI' - 'Baseline (Without AI)' and Improvement > 0, and the table
\* has 10 rows; the ROI loop prints exactly one line for each row it has been
\* through, in table order, with the metric of the row and its improvement to
\* one decimal: 10 lines once the loop is over.
C11_RoiLines ==
    (script = "report" /\ "roi_df" \in FrameNames) =>
        LET roi == Frame("roi_df")
            improvement == Series(roi, <<"Improvement">>)
            baseline == Series(roi, <<"Baseline (Without ", "AI", ")">>)
            with == Series(roi, <<"With HealthSync ", "AI">>)
            metric == Series(roi, <<"Metric">>)
        IN  /\ NRows(roi) = 10
            /\ \A r \in 1..NRows(roi) :
                 /\ Tenths(improvement[r]) = Tenths(with[r]) - Tenths(baseline[r])
                 /\ Tenths(improvement[r]) > 0
            /\ Len(RoiLines) = RoiRowsGone
            /\ \A r \in 1..Len(RoiLines) :
                 RoiLines[r].args =
                    <<metric[r].val, FormatOneDecimal(improvement[r])>>
            /\ pc \in {"print_technical", "print_rest", "done"} => Len(RoiLines) = 10

\* C11, witness: the ROI loop is over and its ten lines are printed, the
\* first for 'Time Saved per User (hours/year)' with +8.5.
C11_Witness ==
    /\ script = "report"
    /\ pc = "print_technical"
    /\ Len(RoiLines) = 10
    /\ RoiLines[1].args = <<<<"Time Saved per User (hours/year)">>, <<"8", ".", "5">>>>

====
